---- MODULE Spec2Model ----
(***************************************************************************)
(* Model of openmdao/recorders/case.py: the Case record, its three         *)
(* variants DriverCase, SystemCase and SolverCase, and the name resolver   *)
(* PromotedToAbsoluteMap.                                                  *)
(*                                                                         *)
(* Python values are modelled as records:                                  *)
(*   - a keyed container (dict, or one record of a structured array) is    *)
(*     [tag |-> "record", fields |-> f], f a function from absolute names  *)
(*     to values; Python's None is [tag |-> "None", fields |-> <<>>];      *)
(*   - an array is [cls |-> "ndarray", names |-> S, rows |-> seq], S the   *)
(*     dtype's field names ({} when dtype.names is None);                  *)
(*   - the outcome of an indexed lookup is [exc |-> e, value |-> v] with   *)
(*     e = "none" for a normal return and the exception's class otherwise. *)
(***************************************************************************)
EXTENDS Integers, Sequences, FiniteSets, TLC

VARIABLES args, obj, last

vars == <<args, obj, last>>

(***************************************************************************)
(* Bounds of the model.                                                    *)
(***************************************************************************)
MaxVal == 1
MaxRows == 2
MaxEntryLen == 2
MaxCounter == 1

PromNames == {"x", "y"}
AbsNames == {"c.x", "c.y"}
Vals == 0..MaxVal
Directions == {"input", "output"}

(***************************************************************************)
(* Python values.                                                          *)
(***************************************************************************)
None == [tag |-> "None", fields |-> <<>>]
Record(f) == [tag |-> "record", fields |-> f]

Return(v) == [exc |-> "none", value |-> v]
Raise(e) == [exc |-> e, value |-> 0]

NoObject == [cls |-> "NoneType"]
Exception(e) == [cls |-> "Exception", exc |-> e]
NoCall == [fn |-> "none"]
NoLookup == [attr |-> "none", key |-> "none", result |-> [exc |-> "unset", value |-> 0]]

(***************************************************************************)
(* Input sets.                                                             *)
(***************************************************************************)
\* dicts from absolute names to values, the empty dict included
Dicts == UNION {[S -> Vals] : S \in SUBSET AbsNames}
Containers == {None} \cup {Record(f) : f \in Dicts}

\* an alias entry: a non-empty tuple of distinct absolute names
Entries ==
    UNION {{s \in [1..n -> AbsNames] : \A i, j \in 1..n : s[i] = s[j] => i = j}
           : n \in 1..MaxEntryLen}
Halves == UNION {[S -> Entries] : S \in SUBSET PromNames}
\* an alias table: a dict with an "input" half, an "output" half, both or none
Tables == UNION {[D -> Halves] : D \in SUBSET Directions}

(***************************************************************************)
(* class PromotedToAbsoluteMap                                             *)
(***************************************************************************)
DefaultOutput == TRUE

\* mutant: the direction flag inverted
PromotedToAbsoluteMapInverted(values, prom2abs, output) ==
    [cls |-> "PromotedToAbsoluteMap",
     values |-> values,
     prom2abs |-> prom2abs,
     input_output |-> IF output THEN "input" ELSE "output"]

PromotedToAbsoluteMap(values, prom2abs, output) ==
    [cls |-> "PromotedToAbsoluteMap",
     values |-> values,
     prom2abs |-> prom2abs,
     input_output |-> IF output THEN "output" ELSE "input"]

\* mutant: the last element of the alias entry, [-1], instead of the first
GetItemLastElement(self, key) ==
    IF self.input_output \notin DOMAIN self.prom2abs THEN Raise("KeyError")
    ELSE IF key \notin DOMAIN self.prom2abs[self.input_output] THEN Raise("KeyError")
    ELSE IF Len(self.prom2abs[self.input_output][key]) = 0 THEN Raise("IndexError")
    ELSE IF self.values.tag = "None" THEN Raise("TypeError")
    ELSE LET entry == self.prom2abs[self.input_output][key] IN
         IF entry[Len(entry)] \notin DOMAIN self.values.fields THEN Raise("KeyError")
         ELSE Return(self.values.fields[entry[Len(entry)]])

\* mutant: a default value, as of dict.get, where the absolute key is absent
GetItemDefault(self, key) ==
    IF self.input_output \notin DOMAIN self.prom2abs THEN Raise("KeyError")
    ELSE IF key \notin DOMAIN self.prom2abs[self.input_output] THEN Raise("KeyError")
    ELSE IF Len(self.prom2abs[self.input_output][key]) = 0 THEN Raise("IndexError")
    ELSE IF self.values.tag = "None" THEN Raise("TypeError")
    ELSE IF self.prom2abs[self.input_output][key][1] \notin DOMAIN self.values.fields
         THEN Return(0)
    ELSE Return(self.values.fields[self.prom2abs[self.input_output][key][1]])

\* self._values[self._prom2abs[self._input_output][key][0]], with the
\* subscripts evaluated innermost first
GetItem(self, key) ==
    IF self.input_output \notin DOMAIN self.prom2abs THEN Raise("KeyError")
    ELSE IF key \notin DOMAIN self.prom2abs[self.input_output] THEN Raise("KeyError")
    ELSE IF Len(self.prom2abs[self.input_output][key]) = 0 THEN Raise("IndexError")
    ELSE IF self.values.tag = "None" THEN Raise("TypeError")
    ELSE IF self.prom2abs[self.input_output][key][1] \notin DOMAIN self.values.fields
         THEN Raise("KeyError")
    ELSE Return(self.values.fields[self.prom2abs[self.input_output][key][1]])

\* mutant: the lookup removes the entry it read, as of dict.pop
AfterGetItemPop(self, key) ==
    IF GetItem(self, key).exc # "none" THEN self
    ELSE LET a == self.prom2abs[self.input_output][key][1] IN
         [self EXCEPT !.values =
             Record([f \in DOMAIN self.values.fields \ {a} |-> self.values.fields[f]])]

\* __getitem__ assigns nothing: the resolver after a lookup
AfterGetItem(self, key) == self

(***************************************************************************)
(* Actions of the resolver on its own.                                     *)
(***************************************************************************)
NewMap ==
    /\ obj = NoObject
    /\ \E values \in Containers, prom2abs \in Tables, output \in BOOLEAN :
          /\ args' = [fn |-> "PromotedToAbsoluteMap", values |-> values,
                      prom2abs |-> prom2abs, output |-> IF output THEN "True" ELSE "False"]
          /\ obj' = PromotedToAbsoluteMap(values, prom2abs, output)
    /\ UNCHANGED last

NewMapDefault ==
    /\ obj = NoObject
    /\ \E values \in Containers, prom2abs \in Tables :
          /\ args' = [fn |-> "PromotedToAbsoluteMap", values |-> values,
                      prom2abs |-> prom2abs, output |-> "omitted"]
          /\ obj' = PromotedToAbsoluteMap(values, prom2abs, DefaultOutput)
    /\ UNCHANGED last

MapLookup ==
    /\ obj.cls = "PromotedToAbsoluteMap"
    /\ \E key \in PromNames :
          /\ last' = [attr |-> "self", key |-> key, result |-> GetItem(obj, key)]
          /\ obj' = AfterGetItem(obj, key)
    /\ UNCHANGED args

(***************************************************************************)
(* Arrays handed to the Case variants.                                     *)
(***************************************************************************)
Array(names, rows) == [cls |-> "ndarray", names |-> names, rows |-> rows]

Ord(f) == IF f = "c.x" THEN 0 ELSE 1

\* n records over the fields `names`; the records differ from row to row
\* and from field to field
Fill(names, n, v) ==
    Array(names, [i \in 1..n |-> [f \in names |-> (v + (i - 1) + Ord(f)) % (MaxVal + 1)]])

\* np.array([]); named fields but no row; one field; all fields
CaseArrays ==
    {Array({}, <<>>), Array(AbsNames, <<>>), Fill({"c.x"}, MaxRows, 0)}
        \cup {Fill(AbsNames, MaxRows, v) : v \in Vals}

CaseHalves == {[p \in {"x"} |-> <<"c.x">>], [p \in {"y"} |-> <<"c.y", "c.x">>]}
CaseTables == UNION {[D -> CaseHalves] : D \in SUBSET Directions}

Filenames == <<"a.db", "b.db">>
Coordinates == <<"rank0:Driver|0", "rank0:Driver|1">>
Timestamps == <<100, 101>>
Successes == <<"1", "0">>
Msgs == <<"", "failed">>

\* the base fields of the i-th recorded iteration
BaseArgs(i) ==
    [filename |-> Filenames[(i % 2) + 1], counter |-> i,
     iteration_coordinate |-> Coordinates[(i % 2) + 1],
     timestamp |-> Timestamps[(i % 2) + 1],
     success |-> Successes[(i % 2) + 1], msg |-> Msgs[(i % 2) + 1]]

Range(s) == {s[i] : i \in DOMAIN s}

(***************************************************************************)
(* class Case and its variants                                             *)
(***************************************************************************)
\* attribute assignments self.k = attrs[k]
WithAttrs(self, attrs) ==
    [k \in DOMAIN self \cup DOMAIN attrs |-> IF k \in DOMAIN attrs THEN attrs[k] ELSE self[k]]

\* mutant: success and msg assigned to each other's attribute
CaseSwapped(filename, counter, iteration_coordinate, timestamp, success, msg) ==
    [cls |-> "Case", filename |-> filename, counter |-> counter,
     iteration_coordinate |-> iteration_coordinate, timestamp |-> timestamp,
     success |-> msg, msg |-> success]

Case(filename, counter, iteration_coordinate, timestamp, success, msg) ==
    [cls |-> "Case", filename |-> filename, counter |-> counter,
     iteration_coordinate |-> iteration_coordinate, timestamp |-> timestamp,
     success |-> success, msg |-> msg]

\* arr[0] of an array without rows
RaisesIndexError(arr) == arr.names # {} /\ Len(arr.rows) = 0

\* mutant: the last record, arr[-1], instead of the first
LastOrNone(arr) == IF arr.names # {} THEN Record(arr.rows[Len(arr.rows)]) ELSE None

\* arr[0] if arr.dtype.names else None
FirstOrNone(arr) == IF arr.names # {} THEN Record(arr.rows[1]) ELSE None

DriverCase(filename, counter, iteration_coordinate, timestamp, success, msg, desvars, responses, objectives, constraints, sysincludes, prom2abs) ==
    IF \E arr \in {desvars, responses, objectives, constraints, sysincludes} :
          RaisesIndexError(arr)
    THEN Exception("IndexError")
    ELSE WithAttrs(Case(filename, counter, iteration_coordinate, timestamp, success, msg),
            [cls |-> "DriverCase",
             desvars |-> PromotedToAbsoluteMap(FirstOrNone(desvars), prom2abs, DefaultOutput),
             responses |-> PromotedToAbsoluteMap(FirstOrNone(responses), prom2abs, DefaultOutput),
             objectives |-> PromotedToAbsoluteMap(FirstOrNone(objectives), prom2abs, DefaultOutput),
             constraints |-> PromotedToAbsoluteMap(FirstOrNone(constraints), prom2abs, DefaultOutput),
             sysincludes |-> PromotedToAbsoluteMap(FirstOrNone(sysincludes), prom2abs, DefaultOutput)])

\* mutant: the inputs resolver built without output=False
SystemCaseDefaultDirection(filename, counter, iteration_coordinate, timestamp, success, msg, inputs, outputs, residuals, prom2abs) ==
    IF \E arr \in {inputs, outputs, residuals} : RaisesIndexError(arr)
    THEN Exception("IndexError")
    ELSE WithAttrs(Case(filename, counter, iteration_coordinate, timestamp, success, msg),
            [cls |-> "SystemCase",
             inputs |-> PromotedToAbsoluteMap(FirstOrNone(inputs), prom2abs, DefaultOutput),
             outputs |-> PromotedToAbsoluteMap(FirstOrNone(outputs), prom2abs, DefaultOutput),
             residuals |-> PromotedToAbsoluteMap(FirstOrNone(residuals), prom2abs, DefaultOutput)])

SystemCase(filename, counter, iteration_coordinate, timestamp, success, msg, inputs, outputs, residuals, prom2abs) ==
    IF \E arr \in {inputs, outputs, residuals} : RaisesIndexError(arr)
    THEN Exception("IndexError")
    ELSE WithAttrs(Case(filename, counter, iteration_coordinate, timestamp, success, msg),
            [cls |-> "SystemCase",
             inputs |-> PromotedToAbsoluteMap(FirstOrNone(inputs), prom2abs, FALSE),
             outputs |-> PromotedToAbsoluteMap(FirstOrNone(outputs), prom2abs, DefaultOutput),
             residuals |-> PromotedToAbsoluteMap(FirstOrNone(residuals), prom2abs, DefaultOutput)])

\* mutant: outputs stored as passed, like abs_err and rel_err
SolverCaseRawOutputs(filename, counter, iteration_coordinate, timestamp, success, msg, abs_err, rel_err, outputs, residuals, prom2abs) ==
    IF RaisesIndexError(residuals)
    THEN Exception("IndexError")
    ELSE WithAttrs(Case(filename, counter, iteration_coordinate, timestamp, success, msg),
            [cls |-> "SolverCase",
             abs_err |-> abs_err,
             rel_err |-> rel_err,
             outputs |-> outputs,
             residuals |-> PromotedToAbsoluteMap(FirstOrNone(residuals), prom2abs, DefaultOutput)])

SolverCase(filename, counter, iteration_coordinate, timestamp, success, msg, abs_err, rel_err, outputs, residuals, prom2abs) ==
    IF \E arr \in {outputs, residuals} : RaisesIndexError(arr)
    THEN Exception("IndexError")
    ELSE WithAttrs(Case(filename, counter, iteration_coordinate, timestamp, success, msg),
            [cls |-> "SolverCase",
             abs_err |-> abs_err,
             rel_err |-> rel_err,
             outputs |-> PromotedToAbsoluteMap(FirstOrNone(outputs), prom2abs, DefaultOutput),
             residuals |-> PromotedToAbsoluteMap(FirstOrNone(residuals), prom2abs, DefaultOutput)])

BaseFields == {"filename", "counter", "iteration_coordinate", "timestamp", "success", "msg"}
DriverGroups == {"desvars", "responses", "objectives", "constraints", "sysincludes"}
SystemGroups == {"inputs", "outputs", "residuals"}
SolverGroups == {"abs_err", "rel_err", "outputs", "residuals"}

Groups(cls) ==
    IF cls = "DriverCase" THEN DriverGroups
    ELSE IF cls = "SystemCase" THEN SystemGroups
    ELSE IF cls = "SolverCase" THEN SolverGroups
    ELSE {}

IsResolver(x) == x.cls = "PromotedToAbsoluteMap"

(***************************************************************************)
(* Actions of the cases.                                                   *)
(***************************************************************************)
NewCase ==
    /\ obj = NoObject
    /\ \E f \in Range(Filenames), c \in 0..MaxCounter, i \in Range(Coordinates),
          t \in Range(Timestamps), s \in Range(Successes), m \in Range(Msgs) :
          /\ args' = [fn |-> "Case", filename |-> f, counter |-> c,
                      iteration_coordinate |-> i, timestamp |-> t, success |-> s, msg |-> m]
          /\ obj' = Case(f, c, i, t, s, m)
    /\ UNCHANGED last

NewDriverCase ==
    /\ obj = NoObject
    /\ \E n \in 0..MaxCounter, arrs \in [DriverGroups -> CaseArrays], prom2abs \in CaseTables :
          LET b == BaseArgs(n) IN
          /\ args' = WithAttrs(WithAttrs(b, arrs), [fn |-> "DriverCase", prom2abs |-> prom2abs])
          /\ obj' = DriverCase(b.filename, b.counter, b.iteration_coordinate, b.timestamp,
                               b.success, b.msg, arrs.desvars, arrs.responses,
                               arrs.objectives, arrs.constraints, arrs.sysincludes, prom2abs)
    /\ UNCHANGED last

NewSystemCase ==
    /\ obj = NoObject
    /\ \E n \in 0..MaxCounter, arrs \in [SystemGroups -> CaseArrays], prom2abs \in CaseTables :
          LET b == BaseArgs(n) IN
          /\ args' = WithAttrs(WithAttrs(b, arrs), [fn |-> "SystemCase", prom2abs |-> prom2abs])
          /\ obj' = SystemCase(b.filename, b.counter, b.iteration_coordinate, b.timestamp,
                               b.success, b.msg, arrs.inputs, arrs.outputs, arrs.residuals,
                               prom2abs)
    /\ UNCHANGED last

NewSolverCase ==
    /\ obj = NoObject
    /\ \E n \in 0..MaxCounter, arrs \in [SolverGroups -> CaseArrays], prom2abs \in CaseTables :
          LET b == BaseArgs(n) IN
          /\ args' = WithAttrs(WithAttrs(b, arrs), [fn |-> "SolverCase", prom2abs |-> prom2abs])
          /\ obj' = SolverCase(b.filename, b.counter, b.iteration_coordinate, b.timestamp,
                               b.success, b.msg, arrs.abs_err, arrs.rel_err, arrs.outputs,
                               arrs.residuals, prom2abs)
    /\ UNCHANGED last

\* case.<attr>[key] on a group of the case that is a resolver
CaseLookup ==
    /\ \E attr \in Groups(obj.cls), key \in PromNames :
          /\ IsResolver(obj[attr])
          /\ last' = [attr |-> attr, key |-> key, result |-> GetItem(obj[attr], key)]
          /\ obj' = WithAttrs(obj, [a \in {attr} |-> AfterGetItem(obj[attr], key)])
    /\ UNCHANGED args

Init ==
    /\ args = NoCall
    /\ obj = NoObject
    /\ last = NoLookup

Next ==
    \/ NewMap
    \/ NewMapDefault
    \/ MapLookup
    \/ NewCase
    \/ NewDriverCase
    \/ NewSystemCase
    \/ NewSolverCase
    \/ CaseLookup

Spec == Init /\ [][Next]_vars

(***************************************************************************)
(* Properties.  The constructor call is kept in args, so each property     *)
(* compares what the object gives with what the caller passed.             *)
(***************************************************************************)
Variants == {"DriverCase", "SystemCase", "SolverCase"}
Constructed == obj.cls \notin {"NoneType", "Exception"}

\* the direction a resolver is to use for a value of the output argument
ExpectedDirection(output) == IF output = "False" THEN "input" ELSE "output"
OtherDirection(d) == IF d = "input" THEN "output" ELSE "input"

\* the alias table t has an entry for k in its half d
HasEntry(t, d, k) == d \in DOMAIN t /\ k \in DOMAIN t[d]
NonEmpty(c) == c.tag = "record" /\ DOMAIN c.fields # {}

\* a lookup has been made on a resolver built on its own
MapLookedUp == args.fn = "PromotedToAbsoluteMap" /\ last.attr = "self"

\* C1: on a resolver with a non-empty raw container, the lookup of a promoted
\* name whose alias entry under the configured direction starts with a key of
\* the raw container returns exactly raw[that key].
C1_LookupReturnsRawValue ==
    MapLookedUp =>
        LET d == ExpectedDirection(args.output)
            t == args.prom2abs
            raw == args.values
        IN  (/\ NonEmpty(raw)
             /\ HasEntry(t, d, last.key)
             /\ t[d][last.key][1] \in DOMAIN raw.fields)
            => last.result = Return(raw.fields[t[d][last.key][1]])

C1_Witness ==
    /\ MapLookedUp
    /\ args.output = "False"
    /\ HasEntry(args.prom2abs, "input", last.key)
    /\ Len(args.prom2abs["input"][last.key]) = 2
    /\ NonEmpty(args.values)
    /\ DOMAIN args.values.fields = AbsNames
    /\ args.values.fields["c.x"] # args.values.fields["c.y"]
    /\ last.result = Return(1)

\* C2: output=False selects the "input" half, output=True or the argument
\* omitted selects the "output" half; the lookup of a promoted name that is
\* only in the other half fails, whatever the raw container holds.
C2_DirectionSelection ==
    args.fn = "PromotedToAbsoluteMap" =>
        LET d == ExpectedDirection(args.output) IN
        /\ obj.input_output = d
        /\ (/\ last.attr = "self"
            /\ HasEntry(args.prom2abs, OtherDirection(d), last.key)
            /\ ~HasEntry(args.prom2abs, d, last.key))
           => last.result.exc # "none"

C2_Witness ==
    /\ MapLookedUp
    /\ args.output = "omitted"
    /\ HasEntry(args.prom2abs, "input", last.key)
    /\ "output" \in DOMAIN args.prom2abs
    /\ ~HasEntry(args.prom2abs, "output", last.key)
    /\ NonEmpty(args.values)
    /\ args.prom2abs["input"][last.key][1] \in DOMAIN args.values.fields
    /\ last.result = Raise("KeyError")

\* C3: on a resolver with an empty or absent (None) raw container, every
\* lookup fails with a key-not-found condition, with or without an alias entry.
C3_EmptyOrAbsentIsKeyError ==
    (MapLookedUp /\ ~NonEmpty(args.values)) => last.result = Raise("KeyError")

\* C4: on a resolver with a non-empty raw container a lookup fails, with a
\* key-not-found condition, exactly when the name has no alias entry under the
\* configured direction or the entry's first element is no key of the raw
\* container; every other lookup returns the value stored under that key.
C4_KeyErrorIffUnresolved ==
    (MapLookedUp /\ NonEmpty(args.values)) =>
        LET d == ExpectedDirection(args.output)
            t == args.prom2abs
            raw == args.values.fields
            unresolved == \/ ~HasEntry(t, d, last.key)
                          \/ t[d][last.key][1] \notin DOMAIN raw
        IN  /\ last.result.exc \in {"none", "KeyError"}
            /\ last.result.exc = "KeyError" <=> unresolved
            /\ last.result.exc = "none" => last.result.value = raw[t[d][last.key][1]]

C4_Witness ==
    /\ MapLookedUp
    /\ NonEmpty(args.values)
    /\ HasEntry(args.prom2abs, ExpectedDirection(args.output), last.key)
    /\ args.prom2abs[ExpectedDirection(args.output)][last.key][1]
           \notin DOMAIN args.values.fields
    /\ last.result = Raise("KeyError")

\* the direction of a group of a variant
GroupDirection(cls, attr) ==
    IF cls = "SystemCase" /\ attr = "inputs" THEN "input" ELSE "output"

\* C5: on a SystemCase built from inputs, outputs and residuals arrays that
\* have named fields and records, case.<group>[name] is the field, under the
\* absolute name of `name`, of the first record of that group's own array.
C5_SystemCaseRoundTrip ==
    (/\ args.fn = "SystemCase"
     /\ \A g \in SystemGroups : args[g].names # {} /\ Len(args[g].rows) > 0)
    => /\ obj.cls = "SystemCase"
       /\ last.attr \in SystemGroups =>
            LET d == GroupDirection("SystemCase", last.attr)
                t == args.prom2abs
                arr == args[last.attr]
            IN  (HasEntry(t, d, last.key) /\ t[d][last.key][1] \in arr.names)
                => last.result = Return(arr.rows[1][t[d][last.key][1]])

C5_Witness ==
    /\ args.fn = "SystemCase"
    /\ \A g \in SystemGroups : args[g].names # {} /\ Len(args[g].rows) > 1
    /\ args.outputs # args.residuals
    /\ args.inputs # args.residuals
    /\ last.attr = "residuals"
    /\ last.key = "y"
    /\ last.result.exc = "none"
    /\ last.result.value = args.residuals.rows[1]["c.y"]
    /\ last.result.value # args.residuals.rows[2]["c.y"]

\* C6: every base field of a constructed Case, DriverCase, SystemCase or
\* SolverCase is the value passed for that parameter.
C6_BaseFieldsPassThrough ==
    (args.fn \in {"Case"} \cup Variants /\ Constructed) =>
        \A f \in BaseFields : obj[f] = args[f]

C6_Witness ==
    /\ args.fn = "SolverCase"
    /\ obj.cls = "SolverCase"
    /\ obj.success = "0"
    /\ obj.msg = "failed"
    /\ obj.counter = 1
    /\ last.attr = "outputs"

\* C7: no constructor fails, whatever the alias table and the arrays are: the
\* call gives an object of the class called.
C7_ConstructionNeverFails ==
    args.fn # "none" => obj.cls = args.fn

\* C8 as stated: every group a variant adds is a resolver.
C8_EveryGroupIsResolver ==
    (args.fn \in Variants /\ Constructed) =>
        \A g \in Groups(obj.cls) : IsResolver(obj[g])

\* C8, amended: every group a variant adds is a resolver, except abs_err and
\* rel_err of SolverCase, which hold the constructor argument as passed.
C8_GroupsAreResolversExceptErrors ==
    (args.fn \in Variants /\ Constructed) =>
        \A g \in Groups(obj.cls) :
            IF obj.cls = "SolverCase" /\ g \in {"abs_err", "rel_err"}
            THEN obj[g] = args[g]
            ELSE IsResolver(obj[g]) /\ obj[g].prom2abs = args.prom2abs

C8_Witness ==
    /\ obj.cls = "SolverCase"
    /\ obj.abs_err.cls = "ndarray"
    /\ obj.abs_err.names # {}
    /\ obj.abs_err # obj.rel_err
    /\ IsResolver(obj.outputs)
    /\ obj.outputs.values # None

\* C9: a lookup changes neither the object (its base fields, its resolvers'
\* raw containers, alias tables and directions) nor the recorded call, and a
\* lookup repeated on the same group with the same name has the same outcome.
C9_LookupsAreReadOnly ==
    [][obj # NoObject =>
          /\ obj' = obj
          /\ args' = args
          /\ (last'.attr = last.attr /\ last'.key = last.key)
                => last'.result = last.result]_vars

C9_Witness ==
    /\ obj.cls = "SystemCase"
    /\ last.attr = "inputs"
    /\ last.result.exc = "none"
    /\ obj.inputs.values = Record(args.inputs.rows[1])

\* C10: SystemCase.inputs is the one group with the "input" direction, every
\* other group resolver has the "output" direction, and all resolvers of a
\* case hold the alias table passed; so a promoted name that is only in the
\* "input" half resolves through SystemCase.inputs and fails in every other
\* group.
C10_VariantDirections ==
    (args.fn \in Variants /\ Constructed) =>
        /\ \A g \in Groups(obj.cls) :
              IsResolver(obj[g]) =>
                  /\ obj[g].input_output = GroupDirection(obj.cls, g)
                  /\ obj[g].prom2abs = args.prom2abs
        /\ (/\ last.attr # "none"
            /\ HasEntry(args.prom2abs, "input", last.key)
            /\ ~HasEntry(args.prom2abs, "output", last.key))
           => IF obj.cls = "SystemCase" /\ last.attr = "inputs"
              THEN LET a == args.prom2abs["input"][last.key][1] IN
                   a \in args.inputs.names
                       => last.result = Return(args.inputs.rows[1][a])
              ELSE last.result.exc # "none"

C10_Witness ==
    /\ obj.cls = "SystemCase"
    /\ last.attr = "inputs"
    /\ HasEntry(args.prom2abs, "input", last.key)
    /\ "output" \in DOMAIN args.prom2abs
    /\ ~HasEntry(args.prom2abs, "output", last.key)
    /\ last.result.exc = "none"
    /\ args.outputs.names # {}

====
